---- MODULE Spec2Model ----
(***************************************************************************)
(* Model of the lexer of basic_lisp (src/src/main.rs): TokenIterator, its  *)
(* one-byte push-back slot `ungotten`, the chained byte source `it`, and   *)
(* the scanning loop of TokenIterator::next, one loop iteration per step.  *)
(*                                                                         *)
(* Bytes are one-character strings; a String / byte sequence is a tuple of *)
(* them; an Option<u8> is a tuple of length 0 (None) or 1 (Some).          *)
(***************************************************************************)
EXTENDS Integers, Sequences, FiniteSets, TLC

\* ---------------------------------------------------------------- bounds
MaxLen == 4          \* longest input drawn from Alphabet
LongLen == 20        \* longest pure digit run (reaches past i64::MAX, 19 digits)
MaxEndCalls == 2     \* calls to next() that are still made after the end signal

\* ------------------------------------------------------- character classes
\* Mutant: the tab is missing from the whitespace arm.
WhitespaceNoTab == {" ", "\n", "\r"}

Whitespace == {" ", "\n", "\t", "\r"}

Lower == {"a","b","c","d","e","f","g","h","i","j","k","l","m",
          "n","o","p","q","r","s","t","u","v","w","x","y","z"}

Upper == {"A","B","C","D","E","F","G","H","I","J","K","L","M",
          "N","O","P","Q","R","S","T","U","V","W","X","Y","Z"}

\* Mutant: the underscore counts as a letter.
LetterWithUnderscore == Lower \cup Upper \cup {"_"}

Letter == Lower \cup Upper

Digit == {"0","1","2","3","4","5","6","7","8","9"}

IdentStart == Letter \cup {"_"}

\* Mutant: digits do not continue an identifier.
IdentCharNoDigit == Letter \cup {"_"}

IdentChar == Letter \cup Digit \cup {"_"}

\* The bytes the bounded inputs are drawn from: one or two of every class.
Alphabet == {" ", "(", ")", "a", "_", "1", ".", "="}

\* The raw source's own end signal (Iterator::next returning None).
EOF == "EOF"

\* ------------------------------------------------------------ the inputs
Strings(n) == UNION {[1..k -> Alphabet] : k \in 0..n}

Rep(ch, n) == [i \in 1..n |-> ch]

\* i64::MAX = 9223372036854775807, as its decimal digits.
I64Max == <<"9","2","2","3","3","7","2","0","3","6","8","5","4","7","7","5","8","0","7">>

\* Digit runs around the 19-digit limit of i64.
LongRuns == {Rep(d, n) : d \in {"1", "9"}, n \in (Len(I64Max) - 1)..LongLen}

\* The inputs of the repository's own tests, and a few with the bytes that
\* Alphabet leaves out (other whitespace, leading zeros, capitals).
TestInputs ==
  { <<"(","a","b","c"," ","1","2","3"," ","1",".","3"," ","=",")">>,
    <<"(","x","y","z","(",")">>,
    <<"(",")","(","(",")",")",")","(",")","(">>,
    <<"1","2","3"," ","1"," ","2"," ","3"," ","4","5","6">>,
    <<"1",".","2","3"," ","1",".","0"," ","9","9","9","9",".","3">>,
    <<"a","1"," ","s","n","a","k","e","_","c","a","s","e"," ","P","a","s","c","a","l"," ","_","1">>,
    <<"1","a"," ","1","2","3","a","b","c"," ","1",".","2",".","3"," ","1",".","3","a","b","c">>,
    <<"(","1","2","3"," ","1","2","3","a","b","c"," ","a","b","c",")">>,
    <<"\t","(","\n",")","\r"," ">>,
    <<"0","0","7"," ","0",".","5","0"," ","0","0">>,
    <<"9","2","2","3","3","7","2","0","3","6","8","5","4","7","7","5","8","0","7">>,
    <<"9","2","2","3","3","7","2","0","3","6","8","5","4","7","7","5","8","0","8">>,
    <<"0","9","2","2","3","3","7","2","0","3","6","8","5","4","7","7","5","8","0","7"," ","a">> }

Inputs == Strings(MaxLen) \cup LongRuns \cup TestInputs

\* What the raw source yields after its first end signal: nothing (a string),
\* or more end signals and bytes (a console that is read again after EOF).
RawTails == {<<>>, <<EOF, EOF, "(">>}

\* ------------------------------------------------------- numeric parsing
RECURSIVE StripZeros(_)
StripZeros(s) ==
  IF Len(s) > 1 /\ Head(s) = "0" THEN StripZeros(Tail(s)) ELSE s

RECURSIVE StripTrailingZeros(_)
StripTrailingZeros(s) ==
  IF Len(s) > 0 /\ s[Len(s)] = "0" THEN StripTrailingZeros(SubSeq(s, 1, Len(s) - 1)) ELSE s

DigitVal(d) ==
  CASE d = "0" -> 0 [] d = "1" -> 1 [] d = "2" -> 2 [] d = "3" -> 3 [] d = "4" -> 4
    [] d = "5" -> 5 [] d = "6" -> 6 [] d = "7" -> 7 [] d = "8" -> 8 [] d = "9" -> 9

\* s > t for two digit strings of the same length, most significant first.
RECURSIVE DigitsGreater(_, _)
DigitsGreater(s, t) ==
  IF s = <<>> THEN FALSE
  ELSE IF Head(s) # Head(t) THEN DigitVal(Head(s)) > DigitVal(Head(t))
  ELSE DigitsGreater(Tail(s), Tail(t))

\* Mutant: a value above i64::MAX is cut to its low digits instead of refused.
ParseIntWrapping(s) ==
  IF s = <<>> \/ \E i \in 1..Len(s) : s[i] \notin Digit
  THEN [ok |-> FALSE, val |-> <<>>]
  ELSE LET v == StripZeros(s) IN
       IF Len(v) > Len(I64Max) \/ (Len(v) = Len(I64Max) /\ DigitsGreater(v, I64Max))
       THEN [ok |-> TRUE, val |-> StripZeros(SubSeq(v, Len(v) - Len(I64Max) + 2, Len(v)))]
       ELSE [ok |-> TRUE, val |-> v]

\* i64::from_str(&partial): Err on an empty string, on any byte that is not a
\* digit, and on a value above i64::MAX; otherwise the value, written here as
\* its decimal digits without leading zeros.
ParseInt(s) ==
  IF s = <<>> \/ \E i \in 1..Len(s) : s[i] \notin Digit
  THEN [ok |-> FALSE, val |-> <<>>]
  ELSE LET v == StripZeros(s) IN
       IF Len(v) > Len(I64Max) \/ (Len(v) = Len(I64Max) /\ DigitsGreater(v, I64Max))
       THEN [ok |-> FALSE, val |-> <<>>]
       ELSE [ok |-> TRUE, val |-> v]

\* Mutant: the float parser wants a digit on both sides of the point.
ParseFloatStrict(s) ==
  LET dots == {i \in 1..Len(s) : s[i] = "."} IN
  IF \/ \E i \in 1..Len(s) : s[i] \notin Digit \cup {"."}
     \/ Cardinality(dots) # 1
     \/ s[1] = "."
     \/ s[Len(s)] = "."
  THEN [ok |-> FALSE, val |-> <<>>]
  ELSE LET p == CHOOSE i \in dots : TRUE IN
       [ok |-> TRUE,
        val |-> StripZeros(SubSeq(s, 1, p - 1)) \o <<".">>
                \o StripTrailingZeros(SubSeq(s, p + 1, Len(s)))]

\* f64::from_str(&partial) on digits with at most one '.': Err when there is
\* no digit at all; otherwise the value, written as its canonical decimal
\* (integer part without leading zeros, '.', fraction without trailing zeros).
ParseFloat(s) ==
  LET dots == {i \in 1..Len(s) : s[i] = "."} IN
  IF \/ \E i \in 1..Len(s) : s[i] \notin Digit \cup {"."}
     \/ Cardinality(dots) > 1
     \/ Cardinality(dots) = Len(s)
  THEN [ok |-> FALSE, val |-> <<>>]
  ELSE LET p == IF dots = {} THEN Len(s) + 1 ELSE CHOOSE i \in dots : TRUE
           ip == SubSeq(s, 1, p - 1)
           fp == SubSeq(s, p + 1, Len(s))
       IN [ok |-> TRUE,
           val |-> StripZeros(IF ip = <<>> THEN <<"0">> ELSE ip) \o <<".">>
                   \o StripTrailingZeros(fp)]

\* ---------------------------------------------------------------- state
VARIABLES
  input,      \* the bytes the raw source yields before its first end signal
  it,         \* self.it: [a |-> raw source, b |-> the chained [b' ']]
  ungotten,   \* self.ungotten: Option<u8>
  pc,         \* "idle" between calls, "scan" inside next(), "panicked"
  state,      \* local `state` of next()
  partial,    \* local `partial` of next()
  byte,       \* local `byte`: the byte the last loop iteration examined
  results,    \* every value next() has returned, in order
  consumed,   \* history: result texts and skipped whitespace, in order
  pulled,     \* history: number of bytes pulled from self.it
  tokAt       \* history: index in the source of the first byte of `partial`

vars == <<input, it, ungotten, pc, state, partial, byte, results, consumed, pulled, tokAt>>

\* The source as the lexer is given it: From::from chains one space.
Sentinel == <<" ">>

\* ------------------------------------------------------------ the source
\* Mutant: the raw source is polled again after its end signal.
ChainNextUnfused(c) ==
  IF c.a # <<>> /\ Head(c.a) # EOF
  THEN [item |-> <<Head(c.a)>>, it |-> [c EXCEPT !.a = Tail(c.a)]]
  ELSE LET c1 == [c EXCEPT !.a = IF c.a = <<>> THEN <<>> ELSE Tail(c.a)] IN
       IF c.b # <<>>
       THEN [item |-> <<Head(c.b)>>, it |-> [c1 EXCEPT !.b = Tail(c.b)]]
       ELSE [item |-> <<>>, it |-> c1]

\* Chain::next: the first iterator is dropped once it has returned None.
ChainNext(c) ==
  IF c.a # <<>> /\ Head(c.a) # EOF
  THEN [item |-> <<Head(c.a)>>, it |-> [c EXCEPT !.a = Tail(c.a)]]
  ELSE LET c1 == [c EXCEPT !.a = <<>>] IN
       IF c.b # <<>>
       THEN [item |-> <<Head(c.b)>>, it |-> [c1 EXCEPT !.b = Tail(c.b)]]
       ELSE [item |-> <<>>, it |-> c1]

\* Mutant: the source is wrapped as it is, without the chained space.
FromIterNoSentinel(raw) == [it |-> [a |-> raw, b |-> <<>>], ungotten |-> <<>>]

\* From::from: the source chained with one space, nothing pushed back.
FromIter(raw) == [it |-> [a |-> raw, b |-> Sentinel], ungotten |-> <<>>]

\* Mutant: the push-back slot is read without being emptied.
FetchNoTake(ung, c) ==
  IF ung # <<>>
  THEN [item |-> ung, ungotten |-> ung, it |-> c, pulls |-> 0]
  ELSE LET n == ChainNext(c) IN
       [item |-> n.item, ungotten |-> <<>>, it |-> n.it, pulls |-> Len(n.item)]

\* Mutant: the source is read before the push-back slot is looked at.
FetchSourceFirst(ung, c) ==
  LET n == ChainNext(c) IN
  IF n.item # <<>>
  THEN [item |-> n.item, ungotten |-> ung, it |-> n.it, pulls |-> 1]
  ELSE [item |-> ung, ungotten |-> <<>>, it |-> n.it, pulls |-> 0]

\* self.ungotten.take().or_else(|| self.it.next())
Fetch(ung, c) ==
  IF ung # <<>>
  THEN [item |-> ung, ungotten |-> <<>>, it |-> c, pulls |-> 0]
  ELSE LET n == ChainNext(c) IN
       [item |-> n.item, ungotten |-> <<>>, it |-> n.it, pulls |-> Len(n.item)]

\* ------------------------------------------------------- the match arms
MatchArm(st, ch) ==
  IF st = "Start" /\ ch \in Whitespace THEN [arm |-> "skip", state |-> st]
  ELSE IF st = "Start" /\ ch = "(" THEN [arm |-> "lparen", state |-> st]
  ELSE IF st = "Start" /\ ch = ")" THEN [arm |-> "rparen", state |-> st]
  ELSE IF st = "Start" /\ ch \in IdentStart THEN [arm |-> "push", state |-> "Ident"]
  ELSE IF st = "Start" /\ ch \in Digit THEN [arm |-> "push", state |-> "Int"]
  ELSE IF st \in {"Start", "Int"} /\ ch = "." THEN [arm |-> "push", state |-> "Float"]
  ELSE IF \/ st = "Float" /\ ch = "."
          \/ st \in {"Int", "Float"} /\ ch \in Letter
       THEN [arm |-> "push", state |-> "Error"]
  ELSE IF \/ st \in {"Int", "Float"} /\ ch \in Digit
          \/ st \in {"Ident", "Error"} /\ ch \in IdentChar
       THEN [arm |-> "push", state |-> st]
  ELSE [arm |-> "boundary", state |-> st]

\* Mutant: the byte that starts a token is not buffered.
PushSkipFirst(p, st, ch) == IF p = <<>> THEN p ELSE Append(p, ch)

\* Mutant: once the run is known to be malformed only the offending
\* character is kept.
PushDiscard(p, st, ch) == IF st = "Error" THEN <<ch>> ELSE Append(p, ch)

\* partial.push(ch)
Push(p, st, ch) == Append(p, ch)

\* Mutant: the boundary byte is never pushed back.
UngetDrop(st, ung, b) == [ok |-> TRUE, ungotten |-> ung]

\* Mutant: the byte is pushed back in Start state too.
UngetAlways(st, ung, b) == [ok |-> ung = <<>>, ungotten |-> <<b>>]

\* if state != State::Start { assert!(self.ungotten.is_none()); self.ungotten = Some(byte); }
Unget(st, ung, b) ==
  IF st # "Start"
  THEN [ok |-> ung = <<>>, ungotten |-> <<b>>]
  ELSE [ok |-> TRUE, ungotten |-> ung]

\* Mutant: the Int arm builds its token with the float parser.
EmitIntAsFloat(st, p, ch) ==
  CASE st = "Start" -> [ok |-> TRUE, kind |-> "Err", val |-> <<ch>>]
    [] st = "Ident" -> [ok |-> TRUE, kind |-> "Ident", val |-> p]
    [] st = "Int" -> [ok |-> ParseFloat(p).ok, kind |-> "Float", val |-> ParseFloat(p).val]
    [] st = "Float" -> [ok |-> ParseFloat(p).ok, kind |-> "Float", val |-> ParseFloat(p).val]
    [] st = "Error" -> [ok |-> TRUE, kind |-> "Err", val |-> p]

\* return match state { ... }: the value returned, or the unwrap that panics.
Emit(st, p, ch) ==
  CASE st = "Start" -> [ok |-> TRUE, kind |-> "Err", val |-> <<ch>>]
    [] st = "Ident" -> [ok |-> TRUE, kind |-> "Ident", val |-> p]
    [] st = "Int" -> [ok |-> ParseInt(p).ok, kind |-> "Int", val |-> ParseInt(p).val]
    [] st = "Float" -> [ok |-> ParseFloat(p).ok, kind |-> "Float", val |-> ParseFloat(p).val]
    [] st = "Error" -> [ok |-> TRUE, kind |-> "Err", val |-> p]

\* ------------------------------------------------------------ results
\* The bytes of `raw` before its first end signal.
RECURSIVE UpToEOF(_)
UpToEOF(raw) ==
  IF raw = <<>> \/ Head(raw) = EOF THEN <<>> ELSE <<Head(raw)>> \o UpToEOF(Tail(raw))

\* The input bytes next() has not consumed: the lookahead byte, unless it is
\* the chained space, and the input bytes not pulled yet.
Remainder(ung, c) == IF c.b = <<>> THEN <<>> ELSE ung \o UpToEOF(c.a)

\* A returned value: kind and val are what the caller sees; src (the source
\* text of the result), st (the state it was emitted in), at (the index of its
\* first byte in the source) and rem (the input not consumed when it was
\* returned) are history.
Result(kind, val, src, st, at, rem) ==
  [kind |-> kind, val |-> val, src |-> src, st |-> st, at |-> at, rem |-> rem]

NoneResult == Result("None", <<>>, <<>>, "Start", 0, <<>>)

EndCalls == Cardinality({i \in 1..Len(results) : results[i].kind = "None"})

\* ---------------------------------------------------------------- Init
Init ==
  /\ input \in Inputs
  /\ \E tail \in RawTails :
       /\ it = FromIter(input \o tail).it
       /\ ungotten = FromIter(input \o tail).ungotten
  /\ pc = "idle"
  /\ state = "Start"
  /\ partial = <<>>
  /\ byte = ""
  /\ results = <<>>
  /\ consumed = <<>>
  /\ pulled = 0
  /\ tokAt = 0

\* ------------------------------------------------------------- actions
\* Mutant: the scanning state survives from one call to the next.
CallNoReset ==
  /\ pc = "idle"
  /\ EndCalls < MaxEndCalls
  /\ pc' = "scan"
  /\ partial' = <<>>
  /\ UNCHANGED <<input, it, ungotten, state, byte, results, consumed, pulled, tokAt>>

\* The caller calls next(): let mut state = Start; let mut partial = String::new();
Call ==
  /\ pc = "idle"
  /\ EndCalls < MaxEndCalls
  /\ pc' = "scan"
  /\ state' = "Start"
  /\ partial' = <<>>
  /\ UNCHANGED <<input, it, ungotten, byte, results, consumed, pulled, tokAt>>

\* The while-let finds no byte: next() returns None.
SourceEnd ==
  /\ pc = "scan"
  /\ LET f == Fetch(ungotten, it) IN
       /\ f.item = <<>>
       /\ it' = f.it
       /\ ungotten' = f.ungotten
       /\ results' = Append(results, NoneResult)
       /\ pc' = "idle"
  /\ UNCHANGED <<input, state, partial, byte, consumed, pulled, tokAt>>

\* (State::Start, ' ' | '\n' | '\t' | '\r') => continue
SkipWhitespace ==
  /\ pc = "scan"
  /\ LET f == Fetch(ungotten, it) IN
       /\ f.item # <<>>
       /\ MatchArm(state, f.item[1]).arm = "skip"
       /\ it' = f.it
       /\ ungotten' = f.ungotten
       /\ byte' = f.item[1]
       /\ pulled' = pulled + f.pulls
       /\ consumed' = Append(consumed, f.item[1])
  /\ UNCHANGED <<input, pc, state, partial, results, tokAt>>

\* (State::Start, '(') => return Some(Ok(Token::LParen))
EmitLParen ==
  /\ pc = "scan"
  /\ LET f == Fetch(ungotten, it) IN
       /\ f.item # <<>>
       /\ MatchArm(state, f.item[1]).arm = "lparen"
       /\ it' = f.it
       /\ ungotten' = f.ungotten
       /\ byte' = f.item[1]
       /\ pulled' = pulled + f.pulls
       /\ tokAt' = pulled'
       /\ consumed' = Append(consumed, f.item[1])
       /\ results' = Append(results, Result("LParen", <<>>, f.item, state, pulled',
                                            Remainder(f.ungotten, f.it)))
       /\ pc' = "idle"
  /\ UNCHANGED <<input, state, partial>>

\* (State::Start, ')') => return Some(Ok(Token::RParen))
EmitRParen ==
  /\ pc = "scan"
  /\ LET f == Fetch(ungotten, it) IN
       /\ f.item # <<>>
       /\ MatchArm(state, f.item[1]).arm = "rparen"
       /\ it' = f.it
       /\ ungotten' = f.ungotten
       /\ byte' = f.item[1]
       /\ pulled' = pulled + f.pulls
       /\ tokAt' = pulled'
       /\ consumed' = Append(consumed, f.item[1])
       /\ results' = Append(results, Result("RParen", <<>>, f.item, state, pulled',
                                            Remainder(f.ungotten, f.it)))
       /\ pc' = "idle"
  /\ UNCHANGED <<input, state, partial>>

\* The arms that set or keep the state and fall through to partial.push(ch).
PushChar ==
  /\ pc = "scan"
  /\ LET f == Fetch(ungotten, it) IN
       /\ f.item # <<>>
       /\ MatchArm(state, f.item[1]).arm = "push"
       /\ it' = f.it
       /\ ungotten' = f.ungotten
       /\ byte' = f.item[1]
       /\ pulled' = pulled + f.pulls
       /\ tokAt' = IF state = "Start" THEN pulled' ELSE tokAt
       /\ state' = MatchArm(state, f.item[1]).state
       /\ partial' = Push(partial, state', f.item[1])
  /\ UNCHANGED <<input, pc, results, consumed>>

\* The default arm: push the byte back unless in Start, then return the
\* token or error of the state; a failed assert or unwrap panics.
Boundary ==
  /\ pc = "scan"
  /\ LET f == Fetch(ungotten, it) IN
       /\ f.item # <<>>
       /\ MatchArm(state, f.item[1]).arm = "boundary"
       /\ LET u == Unget(state, f.ungotten, f.item[1])
              e == Emit(state, partial, f.item[1])
              src == IF state = "Start" THEN f.item ELSE partial
          IN
          /\ it' = f.it
          /\ byte' = f.item[1]
          /\ pulled' = pulled + f.pulls
          /\ tokAt' = IF state = "Start" THEN pulled' ELSE tokAt
          /\ IF ~u.ok
             THEN /\ pc' = "panicked"
                  /\ ungotten' = f.ungotten
                  /\ UNCHANGED <<results, consumed>>
             ELSE IF ~e.ok
             THEN /\ pc' = "panicked"
                  /\ ungotten' = u.ungotten
                  /\ UNCHANGED <<results, consumed>>
             ELSE /\ pc' = "idle"
                  /\ ungotten' = u.ungotten
                  /\ results' = Append(results, Result(e.kind, e.val, src, state, tokAt',
                                                       Remainder(u.ungotten, f.it)))
                  /\ consumed' = consumed \o src
  /\ UNCHANGED <<input, state, partial>>

\* ------------------------------------------------- next() as a function
\* One call to next() from the head of its loop: the value it returns (or
\* "Panic") and the lexer it leaves.
RECURSIVE ScanLoop(_, _, _, _)
ScanLoop(st, p, ung, c) ==
  LET f == Fetch(ung, c) IN
  IF f.item = <<>>
  THEN [obs |-> <<"None", <<>>>>, ungotten |-> f.ungotten, it |-> f.it]
  ELSE LET ch == f.item[1]
           m == MatchArm(st, ch)
           u == Unget(st, f.ungotten, ch)
           e == Emit(st, p, ch)
       IN
       CASE m.arm = "skip" -> ScanLoop(st, p, f.ungotten, f.it)
         [] m.arm = "lparen" -> [obs |-> <<"LParen", <<>>>>, ungotten |-> f.ungotten, it |-> f.it]
         [] m.arm = "rparen" -> [obs |-> <<"RParen", <<>>>>, ungotten |-> f.ungotten, it |-> f.it]
         [] m.arm = "push" -> ScanLoop(m.state, Push(p, m.state, ch), f.ungotten, f.it)
         [] m.arm = "boundary" ->
              IF ~u.ok \/ ~e.ok
              THEN [obs |-> <<"Panic", <<>>>>, ungotten |-> u.ungotten, it |-> f.it]
              ELSE [obs |-> <<e.kind, e.val>>, ungotten |-> u.ungotten, it |-> f.it]

NextCall(ung, c) == ScanLoop("Start", <<>>, ung, c)

\* for token in TokenIterator { ... }: what a lexer returns, call after call,
\* up to and including its first end signal (or its panic).
RECURSIVE RunFrom(_, _)
RunFrom(ung, c) ==
  LET r == NextCall(ung, c) IN
  IF r.obs[1] \in {"None", "Panic"} THEN <<r.obs>>
  ELSE <<r.obs>> \o RunFrom(r.ungotten, r.it)

\* A new lexer on the bytes `inp`.
RunFresh(inp) == RunFrom(FromIter(inp).ungotten, FromIter(inp).it)

Next ==
  \/ Call
  \/ SourceEnd
  \/ SkipWhitespace
  \/ EmitLParen
  \/ EmitRParen
  \/ PushChar
  \/ Boundary

Spec == Init /\ [][Next]_vars

\* ------------------------------------------------------------ history
Source == input \o Sentinel

Last == results[Len(results)]

Returned == pc = "idle" /\ results # <<>>

\* The bytes of the source that next() has not pulled yet.
Unpulled == UpToEOF(it.a) \o it.b

\* The text held by a scan in progress (or by the scan that panicked).
Held == IF pc = "idle" THEN <<>> ELSE partial

\* ------------------------------------------------------------------ C1
\* C1: every call to next() completes by returning a token, an error value or
\* the end signal; no input makes next() abort (panic) instead of returning.
C1_NextAlwaysReturns == pc # "panicked"

\* ------------------------------------------------------------------ C2
\* C2 (original statement): once the end signal is returned, the texts of all results
\* and all whitespace skipped in Start, concatenated in order, are exactly the
\* original input.
C2_RoundTripOriginal ==
  (Returned /\ Last.kind = "None") => consumed = input

\* C2 (amended): the bytes are conserved in order, and what is reproduced is
\* the input followed by the one space that From::from chains to the source:
\* at every point the result texts and skipped whitespace, then the text held
\* by the scan in progress, then the lookahead byte, then the bytes not yet
\* pulled, make up input ++ " "; when the end signal is returned the result
\* texts and skipped whitespace alone are input ++ " ".
C2_RoundTripWithSentinel ==
  /\ consumed \o Held \o ungotten \o Unpulled = Source
  /\ (Returned /\ Last.kind = "None") => consumed = Source

C2_Witness ==
  /\ Returned /\ Last.kind = "None"
  /\ Len(input) >= 3
  /\ \E i \in 1..Len(results) : results[i].kind = "Err"
  /\ \E i \in 1..Len(results) : results[i].kind \in {"Ident", "Int", "Float"}
  /\ \E i \in 1..Len(input) : input[i] \in Whitespace

\* ------------------------------------------------------------------ C3
\* C3: once next() has returned the end signal, every later call returns the
\* end signal too.
C3_EndIsSticky ==
  \A i, j \in 1..Len(results) :
    (i < j /\ results[i].kind = "None") => results[j].kind = "None"

C3_Witness ==
  /\ Returned
  /\ Len(results) >= 3
  /\ results[Len(results) - 1].kind = "None"
  /\ Last.kind = "None"

\* ------------------------------------------------------------------ C4
\* C4: the boundary byte that ends a scan in Ident, Int, Float or Error is not
\* part of the result: it is the byte right after the result's text in the
\* source and it is stored in the lookahead slot. The next call examines it
\* first, before pulling anything from the source; a whitespace byte left
\* this way is skipped by that call in Start state.
C4_PushedBack ==
  (Returned /\ Last.kind # "None" /\ Last.st # "Start") =>
    /\ ungotten = <<byte>>
    /\ MatchArm(Last.st, byte).arm = "boundary"
    /\ Last.src = partial
    /\ Last.src = SubSeq(Source, Last.at, pulled - 1)
    /\ Source[pulled] = byte

C4_ExaminedFirst ==
  /\ (pc = "idle" /\ ungotten # <<>>) => UNCHANGED <<ungotten, it>>
  /\ (pc = "scan" /\ ungotten # <<>>) =>
       /\ state = "Start"
       /\ byte' = ungotten[1]
       /\ it' = it
       /\ ungotten' = <<>>
  /\ (pc = "scan" /\ ungotten # <<>> /\ ungotten[1] \in {" ", "\t", "\n", "\r"}) =>
       /\ consumed' = Append(consumed, ungotten[1])
       /\ results' = results
       /\ pc' = "scan"
       /\ state' = "Start"
       /\ partial' = <<>>

C4_BoundaryIsLookahead == [](C4_PushedBack) /\ [][C4_ExaminedFirst]_vars

\* A whitespace byte of the input ended a token and the next call has just
\* skipped it.
C4_Witness ==
  /\ pc = "scan"
  /\ results # <<>>
  /\ Last.st \in {"Ident", "Int", "Float", "Error"}
  /\ pulled = Last.at + Len(Last.src)
  /\ pulled <= Len(input)
  /\ byte \in {" ", "\t", "\n", "\r"}
  /\ ungotten = <<>>
  /\ state = "Start"
  /\ consumed # <<>> /\ consumed[Len(consumed)] = byte

IsMalformedRun(s) ==
  \E k \in 2..Len(s) :
    LET dots == {i \in 1..(k - 1) : s[i] = "."} IN
    /\ \A i \in 1..(k - 1) : s[i] \in Digit \cup {"."}
    /\ Cardinality(dots) <= 1
    /\ \/ s[k] \in Letter
       \/ s[k] = "." /\ Cardinality(dots) = 1
    /\ \A i \in (k + 1)..Len(s) : s[i] \in Letter \cup Digit \cup {"_"}

\* C6: an error returned from Error state carries the full malformed run: its
\* text is the stretch of the source from the first byte of the run up to the
\* boundary, it is a numeric run, the malforming byte, and the identifier
\* characters after it, and the byte after it is none of those characters;
\* it starts where the call started scanning (only whitespace lies between
\* the previous result and it), so nothing collected is left out. No Int or
\* Float is returned for a run that a letter (or, for a Float, a second
\* decimal point) follows.
C6_ErrorCarriesFullRun ==
  \A i \in 1..Len(results) :
    /\ results[i].st \in {"Int", "Float"} =>
         LET after == Source[results[i].at + Len(results[i].src)] IN
         /\ after \notin Letter
         /\ results[i].st = "Float" => after # "."
    /\ results[i].st = "Error" =>
      LET r == results[i] IN
      /\ r.kind = "Err"
      /\ r.val = SubSeq(Source, r.at, r.at + Len(r.val) - 1)
      /\ r.val = r.src
      /\ IsMalformedRun(r.val)
      /\ Source[r.at + Len(r.val)] \notin Letter \cup Digit \cup {"_"}
      /\ LET prevEnd == IF i = 1 THEN 0
                         ELSE results[i - 1].at + Len(results[i - 1].src) - 1
         IN \A j \in (prevEnd + 1)..(r.at - 1) : Source[j] \in {" ", "\t", "\n", "\r"}

\* An error of at least four bytes with a digit before and an identifier
\* character after the malforming byte.
C6_Witness ==
  /\ Returned
  /\ Last.st = "Error"
  /\ Len(Last.val) >= 4
  /\ Last.val[1] \in Digit
  /\ \E k \in 2..(Len(Last.val) - 1) : Last.val[k] \in Letter \cup {"."} /\ Last.val[k - 1] \in Digit

\* ------------------------------------------------------------------ C7
ObsOf(r) == <<r.kind, r.val>>

\* The results after the k-th, up to the first end signal, and the panic if
\* the lexer panicked.
ObservedAfter(k) ==
  LET ends == {j \in (k + 1)..Len(results) : results[j].kind = "None"}
      last == IF ends = {} THEN Len(results) ELSE CHOOSE j \in ends : \A l \in ends : j <= l
  IN [j \in 1..(last - k) |-> ObsOf(results[k + j])]
     \o (IF pc = "panicked" THEN << <<"Panic", <<>>>> >> ELSE <<>>)

FinishedAfter(k) ==
  pc = "panicked" \/ \E j \in (k + 1)..Len(results) : results[j].kind = "None"

IsPrefix(s, t) == Len(s) <= Len(t) /\ s = SubSeq(t, 1, Len(s))

\* C7: after an error, later calls return what a new lexer returns on the
\* input that was not consumed when the error was returned; and the texts of
\* the results never overlap, so no lexeme is reported twice.
C7_ResumesCleanly ==
  /\ \A k \in 1..Len(results) :
       results[k].kind = "Err" =>
         /\ IsPrefix(ObservedAfter(k), RunFresh(results[k].rem))
         /\ FinishedAfter(k) => ObservedAfter(k) = RunFresh(results[k].rem)
  /\ \A i, j \in 1..Len(results) :
       (i < j /\ results[j].kind # "None") =>
         results[i].at + Len(results[i].src) <= results[j].at

\* An error from Error state was followed by a token, then by the end signal.
C7_Witness ==
  /\ Returned /\ Last.kind = "None"
  /\ \E k \in 1..Len(results) :
       /\ results[k].st = "Error"
       /\ k + 1 < Len(results)
       /\ results[k + 1].kind \in {"Ident", "Int", "Float", "LParen", "RParen"}

\* ------------------------------------------------------------------ C8
StartClasses ==
  {" ", "\t", "\n", "\r", "(", ")", ".", "_"} \cup Letter \cup Digit

\* C8: a byte examined in Start state that belongs to no start class ends the
\* call with an error whose text is that one character; the byte is consumed,
\* the lookahead slot stays empty, and the next call starts after it.
C8_StartOther ==
  LET f == Fetch(ungotten, it) IN
  (pc = "scan" /\ state = "Start" /\ f.item # <<>> /\ f.item[1] \notin StartClasses) =>
    /\ pc' = "idle"
    /\ results' = Append(results, Last')
    /\ Last'.kind = "Err"
    /\ Last'.val = f.item
    /\ Last'.src = f.item
    /\ ungotten' = <<>>
    /\ consumed' = Append(consumed, f.item[1])
    /\ Len(consumed') = pulled'
    /\ Source[pulled'] = f.item[1]
    /\ Unpulled' = SubSeq(Source, pulled' + 1, Len(Source))

C8_UnrecognizedCharacter == [][C8_StartOther]_vars

C8_Witness ==
  /\ Returned
  /\ Last.kind = "Err" /\ Last.st = "Start"
  /\ Last.val = <<"=">>
  /\ ungotten = <<>>
  /\ Len(Unpulled) >= 2

\* ------------------------------------------------------------------ C9
ParenWs == {" ", "\t", "\n", "\r", "(", ")"}

RECURSIVE ParenKinds(_)
ParenKinds(s) ==
  IF s = <<>> THEN <<>>
  ELSE (IF Head(s) = "(" THEN <<"LParen">>
        ELSE IF Head(s) = ")" THEN <<"RParen">> ELSE <<>>) \o ParenKinds(Tail(s))

\* C9: on an input of parentheses and whitespace only, the results are one
\* LParen per '(' and one RParen per ')' in input order, then the end signal;
\* there is no error and no panic.
C9_ParensOnly ==
  (\A i \in 1..Len(input) : input[i] \in ParenWs) =>
    /\ pc # "panicked"
    /\ \A i \in 1..Len(results) :
         /\ results[i].kind =
              (IF i <= Len(ParenKinds(input)) THEN ParenKinds(input)[i] ELSE "None")
         /\ results[i].val = <<>>
    /\ (pc = "idle" /\ Unpulled = <<>> /\ ungotten = <<>> /\ EndCalls = 0) =>
         Len(results) = Len(ParenKinds(input))

C9_Witness ==
  /\ \A i \in 1..Len(input) : input[i] \in ParenWs
  /\ \E i \in 1..Len(input) : input[i] \in {"\t", "\n", "\r"}
  /\ Returned /\ Last.kind = "None"
  /\ Len(results) >= 3
  /\ results[1].kind = "LParen" /\ results[2].kind = "RParen"

\* ----------------------------------------------------------------- C10
Delimiter == {" ", "\t", "\n", "\r", "(", ")"}

\* The well-formed identifiers of the input that are bounded on both sides.
IdentRuns ==
  {r \in (1..Len(input)) \X (1..Len(input)) :
     /\ r[1] <= r[2]
     /\ input[r[1]] \in Letter \cup {"_"}
     /\ \A k \in r[1]..r[2] : input[k] \in Letter \cup Digit \cup {"_"}
     /\ r[1] = 1 \/ input[r[1] - 1] \in Delimiter
     /\ r[2] = Len(input) \/ input[r[2] + 1] \in Delimiter}

\* C10: for every bounded well-formed identifier of the input, the only
\* result that starts inside it is one Ident, starting at its first byte, with
\* exactly its text; and it has been returned once the scan has passed it.
C10_IdentExact ==
  \A r \in IdentRuns :
    LET hits == {k \in 1..Len(results) :
                   results[k].kind # "None" /\ results[k].at \in r[1]..r[2]}
    IN /\ \A k \in hits :
            /\ results[k].at = r[1]
            /\ results[k].kind = "Ident"
            /\ results[k].val = SubSeq(input, r[1], r[2])
       /\ Cardinality(hits) <= 1
       /\ Len(consumed) >= r[2] => Cardinality(hits) = 1

C10_Witness ==
  /\ Returned
  /\ Last.kind = "Ident"
  /\ Len(Last.val) >= 2
  /\ \E r \in IdentRuns : r[1] = Last.at /\ r[1] > 1 /\ r[2] < Len(input)
  /\ \E i \in 2..Len(Last.val) : Last.val[i] \in Digit \cup {"_"}

\* ----------------------------------------------------------------- C11
DecimalDigit == {"0","1","2","3","4","5","6","7","8","9"}

\* The maximal runs of decimal digits of the input.
DigitRuns ==
  {r \in (1..Len(input)) \X (1..Len(input)) :
     /\ r[1] <= r[2]
     /\ \A k \in r[1]..r[2] : input[k] \in DecimalDigit
     /\ r[1] = 1 \/ input[r[1] - 1] \notin DecimalDigit
     /\ r[2] = Len(input) \/ input[r[2] + 1] \notin DecimalDigit}

Before(r) == IF r[1] = 1 THEN <<>> ELSE <<input[r[1] - 1]>>

After(r) == IF r[2] = Len(input) THEN <<>> ELSE <<input[r[2] + 1]>>

NotIn(opt, S) == opt = <<>> \/ opt[1] \notin S

\* The base-10 value of a digit string, as the digits without leading zeros.
RECURSIVE Base10(_)
Base10(d) == IF Len(d) > 1 /\ d[1] = "0" THEN Base10(SubSeq(d, 2, Len(d))) ELSE d

\* The same value as a number, for the runs short enough to compute it.
RECURSIVE Number(_)
Number(d) ==
  IF d = <<>> THEN 0
  ELSE 10 * Number(SubSeq(d, 1, Len(d) - 1))
       + (CHOOSE n \in 0..9 : d[Len(d)] = <<"0","1","2","3","4","5","6","7","8","9">>[n + 1])

\* For the digit run r: the only result that starts inside it is one Int, at
\* its first byte, carrying its base-10 value; and that Int has been returned
\* once the scan has passed the run.
OneIntFor(r) ==
  LET run == SubSeq(input, r[1], r[2])
      hits == {k \in 1..Len(results) :
                 results[k].kind # "None" /\ results[k].at \in r[1]..r[2]}
  IN /\ \A k \in hits :
          /\ results[k].at = r[1]
          /\ results[k].kind = "Int"
          /\ results[k].val = Base10(run)
          /\ Len(run) <= 9 => Number(results[k].val) = Number(run)
     /\ Cardinality(hits) <= 1
     /\ Len(consumed) >= r[2] => Cardinality(hits) = 1

\* C11 (original statement): every maximal digit run whose neighbouring bytes
\* are not letters produces exactly one Int with the run's base-10 value.
C11_IntRunsOriginal ==
  \A r \in DigitRuns :
    (NotIn(Before(r), Letter) /\ NotIn(After(r), Letter)) => OneIntFor(r)

\* C11 (amended): every maximal digit run that is preceded by no letter,
\* underscore or decimal point and followed by no letter or decimal point
\* produces exactly one Int with the run's base-10 value.
C11_IntRuns ==
  \A r \in DigitRuns :
    (NotIn(Before(r), Letter \cup {"_", "."}) /\ NotIn(After(r), Letter \cup {"."}))
      => OneIntFor(r)

\* An Int was returned for a run with a leading zero that lies inside the
\* input.
C11_Witness ==
  /\ Returned
  /\ Last.kind = "Int"
  /\ \E r \in DigitRuns :
       /\ r[1] = Last.at
       /\ NotIn(Before(r), Letter \cup {"_", "."})
       /\ NotIn(After(r), Letter \cup {"."})
       /\ r[2] - r[1] >= 2
       /\ input[r[1]] = "0"
       /\ Last.val # Last.src

\* ----------------------------------------------------------------- C12
\* The digit runs of the input with exactly one decimal point (and at least
\* one digit) that are bounded on both sides.
FloatRuns ==
  {r \in (1..Len(input)) \X (1..Len(input)) :
     /\ r[1] < r[2]
     /\ \A k \in r[1]..r[2] : input[k] \in DecimalDigit \cup {"."}
     /\ Cardinality({k \in r[1]..r[2] : input[k] = "."}) = 1
     /\ Before(r) = <<>> \/ Before(r)[1] \in Delimiter
     /\ After(r) = <<>> \/ After(r)[1] \in Delimiter}

RECURSIVE DropTrailingZeros(_)
DropTrailingZeros(d) ==
  IF d # <<>> /\ d[Len(d)] = "0" THEN DropTrailingZeros(SubSeq(d, 1, Len(d) - 1)) ELSE d

\* The numeric value of digits '.' digits as its canonical decimal.
DecimalOf(run) ==
  LET p == CHOOSE i \in 1..Len(run) : run[i] = "."
      ip == SubSeq(run, 1, p - 1)
      fp == SubSeq(run, p + 1, Len(run))
  IN (IF ip = <<>> THEN <<"0">> ELSE Base10(ip)) \o <<".">> \o DropTrailingZeros(fp)

\* C12: for every bounded digit run with exactly one decimal point, the only
\* result that starts inside it is one Float, starting at its first byte,
\* whose text is the whole run and whose value is the run's value; the scan
\* of the run does not panic, and the Float has been returned once the scan
\* has passed the run.
C12_FloatRuns ==
  \A r \in FloatRuns :
    LET run == SubSeq(input, r[1], r[2])
        hits == {k \in 1..Len(results) :
                   results[k].kind # "None" /\ results[k].at \in r[1]..r[2]}
    IN /\ \A k \in hits :
            /\ results[k].at = r[1]
            /\ results[k].kind = "Float"
            /\ results[k].src = run
            /\ results[k].val = DecimalOf(run)
       /\ Cardinality(hits) <= 1
       /\ ~(pc = "panicked" /\ tokAt = r[1])
       /\ Len(consumed) >= r[2] => Cardinality(hits) = 1

\* A Float was returned for a bounded run with digits on one side of the
\* point only.
C12_Witness ==
  /\ Returned
  /\ Last.kind = "Float"
  /\ \E r \in FloatRuns : r[1] = Last.at /\ r[1] > 1
  /\ Last.src[1] = "." \/ Last.src[Len(Last.src)] = "."

\* ----------------------------------------------------------------- C13
HasOnePointAndADigit(p) ==
  /\ Cardinality({i \in 1..Len(p) : p[i] = "."}) = 1
  /\ \E i \in 1..Len(p) : p[i] \in DecimalDigit

\* C13: a scan in Float state always holds a buffer with exactly one decimal
\* point and at least one digit, when Float is reached, while it lasts, and
\* when the buffer is handed to the float parser at the boundary.
C13_FloatBufferHasDigit ==
  /\ (pc # "idle" /\ state = "Float") => HasOnePointAndADigit(partial)
  /\ \A k \in 1..Len(results) :
       results[k].st = "Float" => HasOnePointAndADigit(results[k].src)

\* ----------------------------------------------------------------- C14
\* The digit string d stands for a value above i64::MAX = 9223372036854775807.
Overflows(d) ==
  LET v == Base10(d) IN
  \/ Len(v) > 19
  \/ /\ Len(v) = 19
     /\ LET a == Number(SubSeq(v, 1, 9))
            b == Number(SubSeq(v, 10, 18))
            c == Number(SubSeq(v, 19, 19))
        IN \/ a > 922337203
           \/ a = 922337203 /\ b > 685477580
           \/ a = 922337203 /\ b = 685477580 /\ c > 7

\* C14: no Int is returned for a digit run above i64::MAX, and every Int
\* carries exactly the value of its digits; a scan in Int state that ends on
\* such a run ends in the panic of the unwrap, and that panic happens for
\* no other digit run.
C14_NoSilentOverflow ==
  /\ \A k \in 1..Len(results) :
       results[k].kind = "Int" =>
         /\ ~Overflows(results[k].src)
         /\ results[k].val = Base10(results[k].src)
  /\ (pc # "scan" /\ state = "Int" /\ Overflows(partial)) => pc = "panicked"
  /\ (pc = "panicked" /\ state = "Int") => Overflows(partial)

\* The run 9223372036854775808, one above i64::MAX, ended in the panic.
C14_Witness ==
  /\ pc = "panicked"
  /\ state = "Int"
  /\ Len(partial) = 19
  /\ partial[19] = "8"
  /\ SubSeq(partial, 1, 18) = SubSeq(I64Max, 1, 18)

\* ----------------------------------------------------------------- C15
\* The slot holds at most one byte; the assert before the push-back holds
\* whenever the default arm is about to run; a panic is never the assert's.
C15_SlotState ==
  /\ Len(ungotten) <= 1
  /\ pc = "scan" =>
       LET f == Fetch(ungotten, it) IN
       (f.item # <<>> /\ MatchArm(state, f.item[1]).arm = "boundary")
         => Unget(state, f.ungotten, f.item[1]).ok
  /\ pc = "panicked" => (state \in {"Int", "Float"} /\ ~Emit(state, partial, byte).ok)

\* A byte is stored only into an empty slot, by the step that ends the call;
\* a stored byte is taken out by the first step of the following call; the
\* slot does not change between calls.
C15_SlotStep ==
  /\ (pc = "scan" /\ ungotten' # <<>>) =>
       /\ ungotten = <<>>
       /\ state # "Start"
       /\ pc' \in {"idle", "panicked"}
  /\ (pc = "scan" /\ ungotten # <<>>) => (state = "Start" /\ partial = <<>> /\ ungotten' = <<>>)
  /\ pc = "idle" => ungotten' = ungotten

\* C15: at most one lookahead byte, pushed back only into an empty slot, at
\* most once per call, and drained by the following call before another
\* byte is stored.
C15_OneLookahead == [](C15_SlotState) /\ [][C15_SlotStep]_vars

\* Two calls in a row each pushed a byte back; the first byte was drained
\* in between.
C15_Witness ==
  /\ Returned
  /\ Len(results) >= 2
  /\ results[Len(results) - 1].st # "Start" /\ results[Len(results) - 1].kind # "None"
  /\ Last.st # "Start" /\ Last.kind # "None"
  /\ ungotten # <<>>
  /\ pulled <= Len(input)

\* ----------------------------------------------------------------- C16
\* C16: at every loop head of a scan the state is Start exactly when the
\* buffer is empty; so every result emitted outside Start (Ident, Int, Float
\* and the accumulated-run error) has a non-empty text, and so has the buffer
\* of a scan that panics.
C16_NonEmptyText ==
  /\ pc = "scan" => (state = "Start" <=> partial = <<>>)
  /\ pc = "panicked" => partial # <<>>
  /\ \A k \in 1..Len(results) :
       /\ results[k].st # "Start" => results[k].src # <<>>
       /\ results[k].kind \in {"Ident", "Int", "Float"} =>
            (results[k].st # "Start" /\ results[k].val # <<>>)

\* A one-byte Ident that began with the byte the previous call pushed back.
C16_Witness ==
  /\ Returned
  /\ Len(results) >= 2
  /\ results[Len(results) - 1].st \in {"Int", "Float", "Error"}
  /\ Last.kind = "Ident"
  /\ Len(Last.src) = 1
  /\ Last.at = results[Len(results) - 1].at + Len(results[Len(results) - 1].src)

\* ----------------------------------------------------------------- C17
\* The source byte right after the text of result r.
Following(r) == Source[r.at + Len(r.src)]

\* C17: the text of every Ident, Int, Float and accumulated-run error is a
\* stretch of the source that the byte after it cannot extend: no letter,
\* digit or underscore follows an Ident or an error run, and no digit,
\* decimal point or letter follows an Int or a Float.
C17_MaximalMunch ==
  \A k \in 1..Len(results) :
    LET r == results[k] IN
    (r.kind # "None" /\ r.st # "Start") =>
      /\ r.src = SubSeq(Source, r.at, r.at + Len(r.src) - 1)
      /\ r.at + Len(r.src) <= Len(Source)
      /\ r.st \in {"Ident", "Error"} =>
           Following(r) \notin Letter \cup DecimalDigit \cup {"_"}
      /\ r.st \in {"Int", "Float"} =>
           Following(r) \notin Letter \cup DecimalDigit \cup {"."}

\* An Ident of two bytes or more that a decimal point ended inside the
\* input, after digits were absorbed into it.
C17_Witness ==
  /\ Returned
  /\ Last.st = "Ident"
  /\ Len(Last.src) >= 2
  /\ Last.src[Len(Last.src)] \in DecimalDigit
  /\ Last.at + Len(Last.src) <= Len(input)
  /\ Following(Last) = "."

\* ----------------------------------------------------------------- C18
\* The reference lexer of the transition table: it peeks at the next byte of
\* the remaining input, consumes it only when the table says so, keeps no
\* buffer slot, and takes the end of the input as a boundary.
RefWhitespace == {" ", "\t", "\n", "\r"}

RefLetter ==
  {"a","b","c","d","e","f","g","h","i","j","k","l","m",
   "n","o","p","q","r","s","t","u","v","w","x","y","z",
   "A","B","C","D","E","F","G","H","I","J","K","L","M",
   "N","O","P","Q","R","S","T","U","V","W","X","Y","Z"}

\* The row of the table for (state, peeked byte): the next state when the
\* byte is buffered and consumed, "" when it is a boundary of the state.
RefExtend(st, ch) ==
  CASE st = "Start" /\ ch \in RefLetter \cup {"_"} -> "Ident"
    [] st = "Start" /\ ch \in DecimalDigit -> "Int"
    [] st = "Start" /\ ch = "." -> "Float"
    [] st \in {"Int", "Float"} /\ ch \in DecimalDigit -> st
    [] st = "Int" /\ ch = "." -> "Float"
    [] st = "Float" /\ ch = "." -> "Error"
    [] st \in {"Int", "Float"} /\ ch \in RefLetter -> "Error"
    [] st \in {"Ident", "Error"} /\ ch \in RefLetter \cup DecimalDigit \cup {"_"} -> st
    [] OTHER -> ""

\* What the table emits for a buffer at a boundary; a buffer that has no
\* numeric value (no digit, or above the integer range) is a parse failure.
RefEmit(st, buf) ==
  CASE st = "Ident" -> <<"Ident", buf>>
    [] st = "Error" -> <<"Err", buf>>
    [] st = "Int" -> IF Overflows(buf) THEN <<"Panic", <<>>>> ELSE <<"Int", Base10(buf)>>
    [] st = "Float" -> IF \E i \in 1..Len(buf) : buf[i] \in DecimalDigit
                       THEN <<"Float", DecimalOf(buf)>>
                       ELSE <<"Panic", <<>>>>

\* One call of the reference lexer on the remaining input.
RECURSIVE RefScan(_, _, _)
RefScan(st, buf, rest) ==
  IF rest = <<>>
  THEN IF st = "Start" THEN [obs |-> <<"None", <<>>>>, rest |-> rest]
       ELSE [obs |-> RefEmit(st, buf), rest |-> rest]
  ELSE LET ch == Head(rest) IN
       IF st = "Start" /\ ch \in RefWhitespace THEN RefScan(st, buf, Tail(rest))
       ELSE IF st = "Start" /\ ch = "(" THEN [obs |-> <<"LParen", <<>>>>, rest |-> Tail(rest)]
       ELSE IF st = "Start" /\ ch = ")" THEN [obs |-> <<"RParen", <<>>>>, rest |-> Tail(rest)]
       ELSE IF RefExtend(st, ch) # "" THEN RefScan(RefExtend(st, ch), Append(buf, ch), Tail(rest))
       ELSE IF st = "Start" THEN [obs |-> <<"Err", <<ch>>>>, rest |-> Tail(rest)]
       ELSE [obs |-> RefEmit(st, buf), rest |-> rest]

\* Everything the reference lexer returns on `inp`, up to its end signal or
\* its parse failure.
RECURSIVE RefRun(_)
RefRun(inp) ==
  LET r == RefScan("Start", <<>>, inp) IN
  IF r.obs[1] \in {"None", "Panic"} THEN <<r.obs>> ELSE <<r.obs>> \o RefRun(r.rest)

C19_Progress ==
  /\ \A k \in 1..Len(results) :
       results[k].kind # "None" =>
         /\ Len(results[k].src) >= 1
         /\ results[k].at >= 1
         /\ results[k].at + Len(results[k].src) - 1 <= Len(input)
         /\ \A j \in 1..(k - 1) : results[j].at + Len(results[j].src) <= results[k].at
  /\ Cardinality({k \in 1..Len(results) : results[k].kind # "None"}) <= Len(input)

\* C19: every result consumes input no earlier call consumed, at most
\* Len(input) results are returned, and the calls go on until the end signal
\* is returned: as long as it has not been returned, a next step is possible.
C19_ProgressToEnd ==
  /\ C19_Progress
  /\ EndCalls >= 1 \/ ENABLED Next

\* ----------------------------------------------------------------- C20
\* C20: an underscore examined in Int or Float state is a boundary: it is
\* pushed back, the call ends, and a call that returns returns the Int or
\* Float of the buffered characters; the next call starts an Ident with it.
\* A letter in the same place turns the run into an error run. A '.'
\* examined in Ident or Error state ends that run, is pushed back, and
\* starts a Float scan in the next call.
C20_Step ==
  LET f == Fetch(ungotten, it) IN
  /\ (pc = "scan" /\ state \in {"Int", "Float"} /\ f.item = <<"_">>) =>
       /\ ungotten' = <<"_">>
       /\ pc' \in {"idle", "panicked"}
       /\ pc' = "idle" =>
            /\ results' = Append(results, Last')
            /\ Last'.kind = state
            /\ Last'.src = partial
            /\ Last'.val = (IF state = "Int" THEN Base10(partial) ELSE DecimalOf(partial))
       /\ pc' = "panicked" =>
            \/ state = "Int" /\ Overflows(partial)
            \/ state = "Float" /\ partial = <<".">>
  /\ (pc = "scan" /\ state \in {"Int", "Float"} /\ f.item # <<>> /\ f.item[1] \in RefLetter) =>
       /\ pc' = "scan"
       /\ state' = "Error"
       /\ partial' = Append(partial, f.item[1])
       /\ results' = results
  /\ (pc = "scan" /\ state \in {"Ident", "Error"} /\ f.item = <<".">>) =>
       /\ ungotten' = <<".">>
       /\ pc' = "idle"
       /\ results' = Append(results, Last')
       /\ Last'.kind = (IF state = "Ident" THEN "Ident" ELSE "Err")
       /\ Last'.val = partial
  /\ (pc = "scan" /\ state = "Start" /\ ungotten = <<"_">>) =>
       (pc' = "scan" /\ state' = "Ident" /\ partial' = <<"_">> /\ ungotten' = <<>>)
  /\ (pc = "scan" /\ state = "Start" /\ ungotten = <<".">>) =>
       (pc' = "scan" /\ state' = "Float" /\ partial' = <<".">> /\ ungotten' = <<>>)

====
